---- MODULE Spec2Model ----
(***************************************************************************)
(* A model of the EKS execution engine (execution/engine/eks_engine.go)    *)
(* and of its adapter (execution/adapter/eks_adapter.go).                  *)
(*                                                                         *)
(* One Run is followed through Execute, Get, FetchUpdateStatus and         *)
(* FetchPodMetrics.  The cluster, the metrics service and the state        *)
(* manager are the environment: what they answer to one call is an input   *)
(* of the action that models the call.  A Go pointer that may be nil is a  *)
(* sequence of length at most one: Nil is the nil pointer, Some(v) points  *)
(* to v.  Times are hours.                                                 *)
(***************************************************************************)
EXTENDS Integers, Sequences, FiniteSets, TLC

VARIABLES
    run,      \* the Run the caller holds: the one returned by the last call
    now,      \* the wall clock, in hours
    jobs,     \* the names of the Jobs the cluster holds
    ret,      \* what the last call did and returned besides the Run
    eng,      \* SpecSubmit: the position and results of each engine's Execute;
              \* SpecJob: the status of the Job in the cluster
    plan,     \* SpecPlan, SpecEnv: the inputs and the result of the adapter
    calls,    \* the calls the last operation made to the services, in order
    queue,    \* SpecOps: the runs the job queue holds
    logs      \* SpecLogs: the log object in S3 and the reader's progress

vars == <<run, now, jobs, ret, eng, plan, calls, queue, logs>>

Nil == <<>>
Some(v) == <<v>>
Val(p) == p[1]

----------------------------------------------------------------------------
(* state package: the constants the adapter and the engine refer to.       *)

StatusQueued == "queued"
StatusRunning == "running"
StatusStopped == "stopped"

SpotLifecycle == "spot"
OndemandLifecycle == "ondemand"

MinCPU == 256
MaxCPU == 32000
MinMem == 512
MaxMem == 250000

SpotActiveDeadlineSeconds == 172800
OndemandActiveDeadlineSeconds == 604800

----------------------------------------------------------------------------
(* Bounds of the model.                                                    *)

MaxNow == 25          \* the clock stops after this hour
MaxFailed == 2        \* the largest Failed counter a Job reports
MaxPods == 2          \* the longest pod list the cluster returns
MaxUsage == 2         \* the largest usage the metrics service reports
MaxEvents == 2        \* the longest event list the cluster returns

\* time.Hour multiples of eks_engine.go:396: a run is dangling after 24 hours
HoursBack == 24

RunID == "r1"

----------------------------------------------------------------------------
(* The cluster's objects.                                                  *)

\* batchv1.JobStatus, the fields the adapter reads
\* at time t
JobStatuses(t) ==
    [Active : 0..1, Succeeded : 0..1, Failed : 0..MaxFailed,
     CompletionTime : {Nil, Some(t)}]

\* the status of a Job as the cluster returns it from Create
NewJobStatus == [Active |-> 0, Succeeded |-> 0, Failed |-> 0, CompletionTime |-> Nil]

\* corev1.Pod: one container at most; Terminated is the state of the last
\* container status (Nil: no container status, or not terminated).  A text
\* that the code searches (a reason, an error message) is a sequence of
\* phrases.
PodNames == {"p1", "p2"}

PodOf(name, ts, kind) ==
    [Name |-> name,
     CreationTimestamp |-> ts,
     NodeName |-> IF kind = "pending" THEN "" ELSE "node-" \o name,
     Containers |-> IF kind = "pending" THEN <<>>
                    ELSE <<[Name |-> "c-" \o name,
                            CpuLimit |-> IF name = "p1" THEN 1000 ELSE 2000,
                            MemLimit |-> IF name = "p1" THEN 1024 ELSE 2048]>>,
     Terminated |-> IF kind = "terminated"
                    THEN Some([Reason |-> <<"OOMKilled">>, ExitCode |-> 137])
                    ELSE Nil]

PodKinds == {"pending", "running", "terminated"}

Pods(names, times, kinds) == {PodOf(n, ts, k) : n \in names, ts \in times, k \in kinds}

\* the pod lists of at most MaxPods pods with distinct names
PodLists(names, times, kinds) ==
    {l \in UNION {[1..n -> Pods(names, times, kinds)] : n \in 0..MaxPods} :
        \A i, j \in DOMAIN l : i # j => l[i].Name # l[j].Name}

\* corev1.Event, the fields GetEvents reads
EventNames == {"ev1", "ev2"}

EventOf(name) ==
    [Name |-> name,
     Message |-> "msg-" \o name,
     FirstTimestamp |-> 1,
     Type |-> "Normal",
     Reason |-> IF name = "ev1" THEN "Scheduled" ELSE "TriggeredScaleUp"]

\* the error messages of a rejected Create, as sequences of phrases
ErrorMessages ==
    {<<"jobs.batch r1", "already exists">>,
     <<"jobs.batch r1", "Already Exists">>,
     <<"Job.batch r1", "is invalid", "spec.template">>,
     <<"Job.batch r1", "is invalid", "Invalid value", "already exists">>,
     <<"etcdserver", "request timed out">>}

ToLower(msg) ==
    [i \in DOMAIN msg |->
        CASE msg[i] = "Already Exists" -> "already exists"
          [] msg[i] = "Invalid value" -> "invalid value"
          [] msg[i] = "Job.batch r1" -> "job.batch r1"
          [] OTHER -> msg[i]]

Contains(msg, phrase) == \E i \in DOMAIN msg : msg[i] = phrase

----------------------------------------------------------------------------
(* state.Run, the fields the engine and the reverse adapter touch.         *)

NewRun(cpu, mem, lifecycle) ==
    [RunID |-> RunID,
     NodeLifecycle |-> lifecycle,
     Status |-> StatusQueued,
     ExitCode |-> Nil,
     ExitReason |-> Nil,
     FinishedAt |-> Nil,
     QueuedAt |-> 0,
     PodName |-> Nil,
     ContainerName |-> Nil,
     InstanceDNSName |-> "",
     Cpu |-> cpu,
     Memory |-> mem,
     MaxCpuUsed |-> Nil,
     MaxMemoryUsed |-> Nil,
     PodEvents |-> <<>>]

\* state.Run{}: what Get returns beside an error
EmptyRun == [NewRun(Nil, Nil, Nil) EXCEPT !.RunID = "", !.Status = ""]

----------------------------------------------------------------------------
(* execution/adapter: the reverse adapter.                                 *)

\* A reverse adapter that takes the exit code of a failed Job from the pod only
AdaptJobToFlotillaRun_PodExitCodeOnly(job, r, pod, t) ==
    LET terminated == pod # Nil /\ Val(pod).Terminated # Nil
        u1 == IF job.Active = 1 /\ job.CompletionTime = Nil
              THEN [r EXCEPT !.Status = StatusRunning]
              ELSE IF job.Succeeded = 1
              THEN [r EXCEPT !.Status = StatusStopped, !.ExitCode = Some(0)]
              ELSE IF job.Failed = 1
              THEN [r EXCEPT !.Status = StatusStopped,
                             !.ExitReason = IF terminated
                                            THEN Some(Val(Val(pod).Terminated).Reason)
                                            ELSE r.ExitReason,
                             !.ExitCode = IF terminated
                                          THEN Some(Val(Val(pod).Terminated).ExitCode)
                                          ELSE r.ExitCode]
              ELSE r
    IN  IF u1.Status = StatusStopped
        THEN [u1 EXCEPT !.FinishedAt = IF job.CompletionTime # Nil
                                       THEN job.CompletionTime
                                       ELSE Some(t)]
        ELSE u1

\* job: a JobStatus; pod: Nil or Some(pod); t: time.Now()
AdaptJobToFlotillaRun(job, r, pod, t) ==
    LET terminated == pod # Nil /\ Val(pod).Terminated # Nil
        u1 == IF job.Active = 1 /\ job.CompletionTime = Nil
              THEN [r EXCEPT !.Status = StatusRunning]
              ELSE IF job.Succeeded = 1
              THEN [r EXCEPT !.Status = StatusStopped, !.ExitCode = Some(0)]
              ELSE IF job.Failed = 1
              THEN [r EXCEPT !.Status = StatusStopped,
                             !.ExitReason = IF terminated
                                            THEN Some(Val(Val(pod).Terminated).Reason)
                                            ELSE r.ExitReason,
                             !.ExitCode = IF terminated
                                          THEN Some(Val(Val(pod).Terminated).ExitCode)
                                          ELSE Some(1)]
              ELSE r
    IN  IF u1.Status = StatusStopped
        THEN [u1 EXCEPT !.FinishedAt = IF job.CompletionTime # Nil
                                       THEN job.CompletionTime
                                       ELSE Some(t)]
        ELSE u1

----------------------------------------------------------------------------
(* execution/adapter: the resource planner and the forward adapter.        *)
(* executable: the resources of the definition, [Cpu, Memory, Gpu,         *)
(* AdaptiveResourceAllocation], each Nil or Some(v).  manager: what the    *)
(* state manager answers, [runs |-> Nil or Some(the runs ListRuns found),  *)
(* estimate |-> Nil or Some([Cpu, Memory])].                               *)

\* A clamp that forgets the upper bounds
checkResourceBounds_NoMax(cpu, mem) ==
    [cpu |-> IF cpu < MinCPU THEN MinCPU ELSE cpu,
     mem |-> IF mem < MinMem THEN MinMem ELSE mem]

checkResourceBounds(cpu, mem) ==
    LET c1 == IF cpu < MinCPU THEN MinCPU ELSE cpu
        c2 == IF c1 > MaxCPU THEN MaxCPU ELSE c1
        m1 == IF mem < MinMem THEN MinMem ELSE mem
        m2 == IF m1 > MaxMem THEN MaxMem ELSE m1
    IN  [cpu |-> c2, mem |-> m2]

\* Defaults whose override for large memory takes 131072 in
getResourceDefaults_UpperInclusive(r, executable) ==
    LET cpu == IF r.Cpu # Nil /\ Val(r.Cpu) # 0 THEN Val(r.Cpu)
               ELSE IF executable.Cpu # Nil /\ Val(executable.Cpu) # 0
               THEN Val(executable.Cpu)
               ELSE MinCPU
        mem == IF r.Memory # Nil /\ Val(r.Memory) # 0 THEN Val(r.Memory)
               ELSE IF executable.Memory # Nil /\ Val(executable.Memory) # 0
               THEN Val(executable.Memory)
               ELSE MinMem
    IN  IF mem >= 36864 /\ mem <= 131072
           /\ (executable.Gpu = Nil \/ Val(executable.Gpu) = 0)
        THEN [cpu |-> IF mem \div 8 > cpu THEN mem \div 8 ELSE cpu, mem |-> mem]
        ELSE [cpu |-> cpu, mem |-> mem]

getResourceDefaults(r, executable) ==
    LET cpu == IF r.Cpu # Nil /\ Val(r.Cpu) # 0 THEN Val(r.Cpu)
               ELSE IF executable.Cpu # Nil /\ Val(executable.Cpu) # 0
               THEN Val(executable.Cpu)
               ELSE MinCPU
        mem == IF r.Memory # Nil /\ Val(r.Memory) # 0 THEN Val(r.Memory)
               ELSE IF executable.Memory # Nil /\ Val(executable.Memory) # 0
               THEN Val(executable.Memory)
               ELSE MinMem
    IN  IF mem >= 36864 /\ mem < 131072
           /\ (executable.Gpu = Nil \/ Val(executable.Gpu) = 0)
        THEN [cpu |-> IF mem \div 8 > cpu THEN mem \div 8 ELSE cpu, mem |-> mem]
        ELSE [cpu |-> cpu, mem |-> mem]

\* ListRuns with limit 1: the first run found, or the zero Run
getLastRun(manager, r) ==
    IF manager.runs # Nil /\ Len(Val(manager.runs)) > 0
    THEN Val(manager.runs)[1]
    ELSE EmptyRun

\* A growth by one half
GrowMemory_Half(mem) == (mem * 150) \div 100

\* int64(float64(mem) * 1.75): the conversion truncates, and mem >= 0
GrowMemory(mem) == (mem * 175) \div 100

\* The requests before the bounds: the defaults, the memory of an OOM-killed
\* last run grown, or the estimate of the manager
requestResources(executable, r, manager, araEnabled) ==
    LET lastRun == getLastRun(manager, r)
    IN  IF araEnabled /\ executable.AdaptiveResourceAllocation = Some(TRUE)
        THEN IF lastRun.ExitReason # Nil
                /\ Contains(Val(lastRun.ExitReason), "OOMKilled")
             THEN [cpu |-> Val(lastRun.Cpu),
                   mem |-> GrowMemory(Val(lastRun.Memory))]
             ELSE IF manager.estimate # Nil
             THEN [cpu |-> Val(manager.estimate).Cpu,
                   mem |-> Val(manager.estimate).Memory]
             ELSE getResourceDefaults(r, executable)
        ELSE getResourceDefaults(r, executable)

\* The end of adaptiveResources: a limit below its request is raised to it,
\* and both pairs are bounded
boundResources(limit, request) ==
    LET req == checkResourceBounds(request.cpu, request.mem)
        lim == checkResourceBounds(
                   IF request.cpu > limit.cpu THEN request.cpu ELSE limit.cpu,
                   IF request.mem > limit.mem THEN request.mem ELSE limit.mem)
    IN  [cpuLimit |-> lim.cpu, memLimit |-> lim.mem,
         cpuRequest |-> req.cpu, memRequest |-> req.mem]

adaptiveResources(executable, r, manager, araEnabled) ==
    boundResources(getResourceDefaults(r, executable),
                   requestResources(executable, r, manager, araEnabled))

\* resource.MustParse of "<n>m" and "<n>M", and Quantity.ScaledValue, which
\* rounds up: a Quantity of cpu is held in millicores, one of memory in
\* kilobytes, and Mega is the megabyte in kilobytes
Mega == 1000
ParseMilli(n) == n
ParseMega(n) == n * Mega
ScaledValue(q, scale) == -((-q) \div scale)

\* A gpu branch that leaves the lifecycle of the Run as it was
resourceRequirements_KeepLifecycle(executable, r, res) ==
    LET gpu == executable.Gpu # Nil /\ Val(executable.Gpu) > 0
    IN  [limits |-> [cpu |-> ParseMilli(res.cpuLimit), memory |-> ParseMega(res.memLimit),
                     gpu |-> IF gpu THEN executable.Gpu ELSE Nil],
         requests |-> [cpu |-> ParseMilli(res.cpuRequest),
                       memory |-> ParseMega(res.memRequest),
                       gpu |-> IF gpu THEN executable.Gpu ELSE Nil],
         run |-> [r EXCEPT !.Memory = Some(ScaledValue(ParseMega(res.memRequest), Mega)),
                           !.Cpu = Some(ScaledValue(ParseMilli(res.cpuRequest), 1))]]

\* The requirements and the Run for res, the four values of adaptiveResources
resourceRequirements(executable, r, res) ==
    LET gpu == executable.Gpu # Nil /\ Val(executable.Gpu) > 0
    IN  [limits |-> [cpu |-> ParseMilli(res.cpuLimit), memory |-> ParseMega(res.memLimit),
                     gpu |-> IF gpu THEN executable.Gpu ELSE Nil],
         requests |-> [cpu |-> ParseMilli(res.cpuRequest),
                       memory |-> ParseMega(res.memRequest),
                       gpu |-> IF gpu THEN executable.Gpu ELSE Nil],
         run |-> [r EXCEPT !.NodeLifecycle = IF gpu THEN Some(OndemandLifecycle) ELSE @,
                           !.Memory = Some(ScaledValue(ParseMega(res.memRequest), Mega)),
                           !.Cpu = Some(ScaledValue(ParseMilli(res.cpuRequest), 1))]]

constructResourceRequirements(executable, r, manager, araEnabled) ==
    resourceRequirements(executable, r,
                         adaptiveResources(executable, r, manager, araEnabled))

\* The match expressions of the node affinity: whether the gpu node types
\* are excluded, whether the cpu node types are required, and the values of
\* the lifecycle key.  float64(cpu)/float64(mem) >= 0.5 with cpu, mem > 0.
constructAffinity(executable, r) ==
    LET nogpu == executable.Gpu = Nil \/ Val(executable.Gpu) <= 0
    IN  [lifecycle |-> IF r.NodeLifecycle = Some(OndemandLifecycle)
                       THEN <<"normal">> ELSE <<"spot">>,
         notInGpuNodes |-> nogpu,
         inCpuNodes |-> /\ nogpu
                        /\ r.Memory # Nil /\ r.Cpu # Nil
                        /\ Val(r.Cpu) > 0 /\ Val(r.Memory) > 0
                        /\ 2 * Val(r.Cpu) >= Val(r.Memory)]

\* The Job built from rr, the requirements and the Run of
\* constructResourceRequirements, or Nil when the build dereferences the nil
\* NodeLifecycle of the Run and panics.
jobOf(executable, rr) ==
    IF rr.run.NodeLifecycle = Nil
    THEN Nil
    ELSE Some([Name |-> rr.run.RunID,
               Resources |-> [limits |-> rr.limits, requests |-> rr.requests],
               Affinity |-> constructAffinity(executable, rr.run),
               ActiveDeadlineSeconds |->
                   IF rr.run.NodeLifecycle = Some(OndemandLifecycle)
                   THEN OndemandActiveDeadlineSeconds
                   ELSE SpotActiveDeadlineSeconds])

AdaptFlotillaDefinitionAndRunToJob(executable, r, manager, araEnabled) ==
    jobOf(executable, constructResourceRequirements(executable, r, manager, araEnabled))

----------------------------------------------------------------------------
(* execution/adapter: the environment of the container.  A name is a       *)
(* sequence of characters; an environment is a sequence of pairs           *)
(* [Name, Value].                                                          *)

NotSpace(ch) == ch # " "

\* strings.Replace(key, "$", "", 1) after HasPrefix(key, "$") removes the
\* first character; strings.Replace(key, " ", "", -1) removes every space
sanitizeEnvVar(key) ==
    SelectSeq(IF Len(key) > 0 /\ key[1] = "$" THEN Tail(key) ELSE key, NotSpace)

\* pairs[name] = value for the pairs evs[i..], in order: the map pairs is
\* a function on the names put so far
RECURSIVE putPairs(_, _, _)
putPairs(pairs, evs, i) ==
    IF i > Len(evs)
    THEN pairs
    ELSE putPairs([n \in DOMAIN pairs \cup {sanitizeEnvVar(evs[i].Name)} |->
                      IF n = sanitizeEnvVar(evs[i].Name) THEN evs[i].Value
                      ELSE pairs[n]],
                  evs, i + 1)

\* The EnvVars of the container, as a set: the order of `range pairs` is
\* not defined
envVarsOf(pairs) ==
    {[Name |-> key, Value |-> pairs[key]] : key \in {k \in DOMAIN pairs : Len(k) > 0}}

envOverrides(executableEnv, runEnv) ==
    envVarsOf(putPairs(putPairs(<<>>, executableEnv, 1), runEnv, 1))

----------------------------------------------------------------------------
(* execution/engine: the operations, as functions of the Run passed in     *)
(* and of what the cluster answers.  An answer of Nil is a failed call.    *)

getInstanceDetails(pod, r) ==
    IF Len(pod.NodeName) > 0 THEN [r EXCEPT !.InstanceDNSName = pod.NodeName] ELSE r

\* podAns: Nil, or Some(the pod list)
getPodName(r, podAns) ==
    IF podAns = Nil \/ Len(Val(podAns)) = 0
    THEN r
    ELSE LET items == Val(podAns)
             pod == items[Len(items)]
             r1 == [r EXCEPT !.PodName = Some(pod.Name)]
         IN  IF Len(pod.Containers) > 0
             THEN LET container == pod.Containers[Len(pod.Containers)]
                      r2 == [r1 EXCEPT !.ContainerName = Some(container.Name),
                                       !.Cpu = Some(container.CpuLimit)]
                  IN  [getInstanceDetails(pod, r2) EXCEPT
                           !.Memory = Some(container.MemLimit)]
             ELSE r1

\* The definition Execute is called with, and the Job it submits: Execute
\* passes neither a manager nor araEnabled to the adapter.
EngineDefinition ==
    [Cpu |-> Some(500), Memory |-> Some(2048), Gpu |-> Nil,
     AdaptiveResourceAllocation |-> Nil]

ExecuteJob(r) ==
    AdaptFlotillaDefinitionAndRunToJob(EngineDefinition, r,
                                       [runs |-> Nil, estimate |-> Nil], FALSE)

\* An Execute that reports a duplicate submission as a failure to retry
Execute_DuplicateFails(r, createAns, podAns, t) ==
    IF createAns # Nil
    THEN IF Contains(ToLower(Val(createAns)), "is invalid")
            /\ ~Contains(ToLower(Val(createAns)), "already exists")
         THEN [run |-> [r EXCEPT !.ExitReason = createAns],
               retryable |-> FALSE, err |-> createAns]
         ELSE [run |-> r, retryable |-> TRUE, err |-> createAns]
    ELSE [run |-> AdaptJobToFlotillaRun(NewJobStatus, getPodName(r, podAns), Nil, t),
          retryable |-> FALSE, err |-> Nil]

\* An Execute that retries an invalid Job
Execute_InvalidRetryable(r, createAns, podAns, t) ==
    IF createAns # Nil
    THEN IF Contains(ToLower(Val(createAns)), "already exists")
         THEN [run |-> r, retryable |-> FALSE, err |-> Nil]
         ELSE [run |-> r, retryable |-> TRUE, err |-> createAns]
    ELSE [run |-> AdaptJobToFlotillaRun(NewJobStatus, getPodName(r, podAns), Nil, t),
          retryable |-> FALSE, err |-> Nil]

\* An Execute that records the error of a duplicate submission on the Run
Execute_DuplicateMarked(r, createAns, podAns, t) ==
    IF createAns # Nil
    THEN IF Contains(ToLower(Val(createAns)), "already exists")
         THEN [run |-> [r EXCEPT !.ExitReason = createAns],
               retryable |-> FALSE, err |-> Nil]
         ELSE IF Contains(ToLower(Val(createAns)), "is invalid")
         THEN [run |-> [r EXCEPT !.ExitReason = createAns],
               retryable |-> FALSE, err |-> createAns]
         ELSE [run |-> r, retryable |-> TRUE, err |-> createAns]
    ELSE [run |-> AdaptJobToFlotillaRun(NewJobStatus, getPodName(r, podAns), Nil, t),
          retryable |-> FALSE, err |-> Nil]

\* createAns: Nil when the cluster accepted the Job, or Some(error message).
\* The Job built by the forward adapter does not reach the returned Run: the
\* adapter gets its own copy of the Run.
Execute(r, createAns, podAns, t) ==
    IF createAns # Nil
    THEN IF Contains(ToLower(Val(createAns)), "already exists")
         THEN [run |-> r, retryable |-> FALSE, err |-> Nil]
         ELSE IF Contains(ToLower(Val(createAns)), "is invalid")
         THEN [run |-> [r EXCEPT !.ExitReason = createAns],
               retryable |-> FALSE, err |-> createAns]
         ELSE [run |-> r, retryable |-> TRUE, err |-> createAns]
    ELSE [run |-> AdaptJobToFlotillaRun(NewJobStatus, getPodName(r, podAns), Nil, t),
          retryable |-> FALSE, err |-> Nil]

\* One call to a service: what was called, with what, whether it succeeded
\* and what it answered
Call(name, arg, ok, out) == [call |-> name, arg |-> arg, ok |-> ok, out |-> out]

\* A Terminate that fails when the pod delete fails
Terminate_PodDeleteFails(r, deleteOk, podDeleteOk) ==
    [err |-> ~deleteOk \/ (r.PodName # Nil /\ ~podDeleteOk),
     calls |-> <<Call("Jobs.Delete", r.RunID, deleteOk, Nil)>>
               \o (IF r.PodName # Nil
                    THEN <<Call("Pods.Delete", Val(r.PodName), podDeleteOk, Nil)>>
                    ELSE <<>>)]

\* deleteOk, podDeleteOk: whether the cluster deleted the Job, and the pod
Terminate(r, deleteOk, podDeleteOk) ==
    [err |-> ~deleteOk,
     calls |-> <<Call("Jobs.Delete", r.RunID, deleteOk, Nil)>>
               \o (IF r.PodName # Nil
                    THEN <<Call("Pods.Delete", Val(r.PodName), podDeleteOk, Nil)>>
                    ELSE <<>>)]

\* An Enqueue that does not report a failed publish
Enqueue_PublishErrorDropped(r, urlAns, publishOk) ==
    IF urlAns = Nil
    THEN [err |-> TRUE, calls |-> <<Call("QurlFor", "eks", FALSE, Nil)>>]
    ELSE [err |-> FALSE,
          calls |-> <<Call("QurlFor", "eks", TRUE, urlAns),
                      Call("Enqueue", <<Val(urlAns), r.RunID>>, publishOk, Nil)>>]

\* urlAns: Nil, or Some(the url of the job queue); publishOk: whether the
\* queue manager published the run
Enqueue(r, urlAns, publishOk) ==
    IF urlAns = Nil
    THEN [err |-> TRUE, calls |-> <<Call("QurlFor", "eks", FALSE, Nil)>>]
    ELSE [err |-> ~publishOk,
          calls |-> <<Call("QurlFor", "eks", TRUE, urlAns),
                      Call("Enqueue", <<Val(urlAns), r.RunID>>, publishOk, Nil)>>]

\* A PollRuns that returns a receipt for the empty receipt too
PollRuns_EmptyReceiptKept(urlAns, receiveAns) ==
    IF urlAns = Nil
    THEN [runs |-> <<>>, err |-> TRUE, calls |-> <<Call("QurlFor", "eks", FALSE, Nil)>>]
    ELSE [runs |-> IF receiveAns # Nil THEN <<Val(receiveAns)>> ELSE <<>>,
          err |-> receiveAns = Nil,
          calls |-> <<Call("QurlFor", "eks", TRUE, urlAns),
                      Call("ReceiveRun", Val(urlAns), receiveAns # Nil, receiveAns)>>]

\* receiveAns: Nil, or Some(the receipt of the queue manager), whose Run is
\* Nil when the queue dispensed nothing
PollRuns(urlAns, receiveAns) ==
    IF urlAns = Nil
    THEN [runs |-> <<>>, err |-> TRUE, calls |-> <<Call("QurlFor", "eks", FALSE, Nil)>>]
    ELSE [runs |-> IF receiveAns # Nil /\ Val(receiveAns).Run # Nil
                   THEN <<Val(receiveAns)>> ELSE <<>>,
          err |-> receiveAns = Nil,
          calls |-> <<Call("QurlFor", "eks", TRUE, urlAns),
                      Call("ReceiveRun", Val(urlAns), receiveAns # Nil, receiveAns)>>]

\* jobAns: Nil, or Some(the status of the Job)
Get(r, jobAns, t) ==
    IF jobAns = Nil
    THEN [run |-> EmptyRun, err |-> TRUE]
    ELSE [run |-> AdaptJobToFlotillaRun(Val(jobAns), r, Nil, t), err |-> FALSE]

\* state.PodEvent.Equal: value equality on the five fields
PodEventEqual(a, b) == a = b

\* eventsAns: Nil, or Some(the event list of the pod)
GetEvents(r, eventsAns) ==
    IF r.PodName = Nil
    THEN [PodEvents |-> <<>>, err |-> FALSE]
    ELSE IF eventsAns = Nil
    THEN [PodEvents |-> <<>>, err |-> TRUE]
    ELSE [PodEvents |->
              [i \in DOMAIN Val(eventsAns) |->
                  LET e == Val(eventsAns)[i]
                  IN  [Message |-> e.Message, Timestamp |-> e.FirstTimestamp,
                       EventType |-> e.Type, Reason |-> e.Reason,
                       SourceObject |-> e.Name]],
          err |-> FALSE]

\* A FetchPodMetrics that records the latest usage
FetchPodMetrics_Latest(r, metricsAns) ==
    IF r.PodName = Nil \/ metricsAns = Nil
    THEN [run |-> r, err |-> TRUE]
    ELSE IF Len(Val(metricsAns)) > 0
    THEN [run |-> [r EXCEPT !.MaxMemoryUsed = Some(Val(metricsAns)[1].Memory),
                            !.MaxCpuUsed = Some(Val(metricsAns)[1].Cpu)],
          err |-> FALSE]
    ELSE [run |-> r, err |-> FALSE]

\* metricsAns: Nil, or Some(the usage of each container of the pod)
FetchPodMetrics(r, metricsAns) ==
    IF r.PodName = Nil
    THEN [run |-> r, err |-> TRUE]
    ELSE IF metricsAns = Nil
    THEN [run |-> r, err |-> TRUE]
    ELSE IF Len(Val(metricsAns)) > 0
    THEN LET usage == Val(metricsAns)[1]
             r1 == IF r.MaxMemoryUsed = Nil \/ Val(r.MaxMemoryUsed) = 0
                      \/ Val(r.MaxMemoryUsed) < usage.Memory
                   THEN [r EXCEPT !.MaxMemoryUsed = Some(usage.Memory)]
                   ELSE r
         IN  [run |-> IF r1.MaxCpuUsed = Nil \/ Val(r1.MaxCpuUsed) = 0
                         \/ Val(r1.MaxCpuUsed) < usage.Cpu
                      THEN [r1 EXCEPT !.MaxCpuUsed = Some(usage.Cpu)]
                      ELSE r1,
              err |-> FALSE]
    ELSE [run |-> r, err |-> FALSE]

\* The loop of FetchUpdateStatus over podList.Items: the index of the pod
\* the loop selects (0: none), after the first i-1 pods gave index idx with
\* creation timestamp ts.  The zero metav1.Time is before every timestamp.
RECURSIVE mostRecentIndex(_, _, _, _)
mostRecentIndex(items, i, idx, ts) ==
    IF i > Len(items)
    THEN idx
    ELSE IF ts < items[i].CreationTimestamp \/ Len(items) = 1
    THEN mostRecentIndex(items, i + 1, i, items[i].CreationTimestamp)
    ELSE mostRecentIndex(items, i + 1, idx, ts)

\* The loop variables a Go build gives `for _, p := range`: one variable
\* for the whole loop (before Go 1.22) or one per iteration.
LoopVars == {"shared", "periteration"}

\* What mostRecentPod points to after the loop: it holds &p, the address of
\* the loop variable.  With one variable for the whole loop, that variable
\* holds the last pod of the list when the loop ends.
mostRecentPod(items, loopvar) ==
    LET idx == mostRecentIndex(items, 1, 0, 0)
    IN  IF idx = 0 THEN Nil
        ELSE IF loopvar = "shared" THEN Some(items[Len(items)])
        ELSE Some(items[idx])

\* The merge of the fetched events into run.PodEvents: each fetched event
\* is compared with the list as grown so far.
RECURSIVE mergePodEvents(_, _, _)
mergePodEvents(priorEvents, newEvents, i) ==
    IF i > Len(newEvents)
    THEN priorEvents
    ELSE IF \E j \in DOMAIN priorEvents : PodEventEqual(priorEvents[j], newEvents[i])
    THEN mergePodEvents(priorEvents, newEvents, i + 1)
    ELSE mergePodEvents(Append(priorEvents, newEvents[i]), newEvents, i + 1)

\* The pod part of FetchUpdateStatus: the Run after the pod list was read
updatePod(r, pod) ==
    LET r1 == IF r.PodName = Nil \/ pod.Name # Val(r.PodName)
              THEN getInstanceDetails(pod, [r EXCEPT !.PodName = Some(pod.Name)])
              ELSE r
        r2 == IF Len(r1.InstanceDNSName) = 0 THEN getInstanceDetails(pod, r1) ELSE r1
    IN  IF Len(pod.Containers) > 0
        THEN LET container == pod.Containers[Len(pod.Containers)]
             IN  [r2 EXCEPT !.ContainerName = Some(container.Name),
                            !.Cpu = Some(container.CpuLimit),
                            !.Memory = Some(container.MemLimit)]
        ELSE r2

\* An event part that empties the list when the events could not be fetched
updateEvents_ClearOnError(r, events) ==
    IF ~events.err /\ Len(events.PodEvents) > 0
    THEN IF Len(r.PodEvents) > 0
         THEN [r EXCEPT !.PodEvents = mergePodEvents(r.PodEvents, events.PodEvents, 1)]
         ELSE [r EXCEPT !.PodEvents = events.PodEvents]
    ELSE IF events.err THEN [r EXCEPT !.PodEvents = <<>>] ELSE r

\* The event part of FetchUpdateStatus
updateEvents(r, events) ==
    IF ~events.err /\ Len(events.PodEvents) > 0
    THEN IF Len(r.PodEvents) > 0
         THEN [r EXCEPT !.PodEvents = mergePodEvents(r.PodEvents, events.PodEvents, 1)]
         ELSE [r EXCEPT !.PodEvents = events.PodEvents]
    ELSE r

----------------------------------------------------------------------------
(* clients/logs: the S3 log tailer.  The body of a log object is           *)
(* [lines, tail]: lines are its lines that end with a newline, each Nil    *)
(* (not JSON) or Some(its log field); tail is the data after the last      *)
(* newline, Nil when there is none.  A text is the sequence of the log     *)
(* fields it concatenates.  A cursor is a sequence of characters.          *)

MaxLogLines == 1

Digits == <<"0", "1", "2", "3", "4", "5", "6", "7", "8", "9">>

IsDigit(ch) == \E d \in DOMAIN Digits : Digits[d] = ch

DigitValue(ch) == (CHOOSE d \in DOMAIN Digits : Digits[d] = ch) - 1

\* fmt.Sprintf("%d", n), for n >= 0
RECURSIVE FormatInt(_)
FormatInt(n) ==
    IF n < 10 THEN <<Digits[n + 1]>>
    ELSE Append(FormatInt(n \div 10), Digits[(n % 10) + 1])

RECURSIVE DigitsValue(_)
DigitsValue(s) ==
    IF Len(s) = 0 THEN 0
    ELSE 10 * DigitsValue(SubSeq(s, 1, Len(s) - 1)) + DigitValue(s[Len(s)])

\* strconv.ParseInt(s, 10, 64): Nil is the error
ParseInt(s) ==
    IF Len(s) > 0 /\ \A i \in DOMAIN s : IsDigit(s[i])
    THEN Some(DigitsValue(s))
    ELSE IF Len(s) > 1 /\ s[1] \in {"-", "+"} /\ \A i \in 2..Len(s) : IsDigit(s[i])
    THEN Some(IF s[1] = "-" THEN -DigitsValue(Tail(s)) ELSE DigitsValue(Tail(s)))
    ELSE Nil

\* The k-th reader.ReadBytes('\n') on the body: a line, or at the end of
\* the body the data after the last newline and io.EOF
ReadBytes(body, k) ==
    IF k <= Len(body.lines)
    THEN [line |-> body.lines[k], eof |-> FALSE]
    ELSE [line |-> body.tail, eof |-> TRUE]

\* The first loop of logsToMessageString, from currentPosition = cur:
\* whether a read hits the end of the body
RECURSIVE skipLoop(_, _, _)
skipLoop(body, cur, startingPosition) ==
    IF cur < startingPosition
    THEN IF ReadBytes(body, cur + 1).eof THEN TRUE
         ELSE skipLoop(body, cur + 1, startingPosition)
    ELSE FALSE

\* The second loop, from currentPosition = cur with the text acc: the
\* reader has read cur lines
RECURSIVE readLoop(_, _, _, _)
readLoop(body, cur, startingPosition, acc) ==
    IF cur <= startingPosition + MaxLogLines
    THEN IF ReadBytes(body, cur + 1).eof
         THEN [acc |-> acc, position |-> cur + 1]
         ELSE readLoop(body, cur + 1, startingPosition,
                       IF ReadBytes(body, cur + 1).line # Nil
                       THEN Append(acc, Val(ReadBytes(body, cur + 1).line))
                       ELSE acc)
    ELSE [acc |-> acc, position |-> cur]

\* No read of the model fails but at the end of the body, so err is nil
logsToMessageString(body, startingPosition) ==
    IF skipLoop(body, 0, IF startingPosition <= 0 THEN 0 ELSE startingPosition)
    THEN [acc |-> <<>>,
          position |-> IF startingPosition <= 0 THEN 0 ELSE startingPosition]
    ELSE readLoop(body,
                  IF startingPosition <= 0 THEN 0 ELSE startingPosition,
                  IF startingPosition <= 0 THEN 0 ELSE startingPosition,
                  <<>>)

\* logsToMessage from the k-th read on, with w what was written to the
\* sink: it stops without an error at the end of the body, and with the
\* error of json.Unmarshal at a line that is not JSON.  The sink takes
\* every write.
RECURSIVE logsToMessage(_, _, _)
logsToMessage(body, k, w) ==
    IF ReadBytes(body, k).eof
    THEN [w |-> w, err |-> FALSE]
    ELSE IF ReadBytes(body, k).line = Nil
    THEN [w |-> w, err |-> TRUE]
    ELSE logsToMessage(body, k + 1, Append(w, Val(ReadBytes(body, k).line)))

\* A selection that takes the last listed object of the run
RECURSIVE latestKey_LastListed(_, _, _, _, _)
latestKey_LastListed(contents, runID, i, key, lastModified) ==
    IF i > Len(contents)
    THEN key
    ELSE IF Contains(contents[i].Key, runID)
    THEN latestKey_LastListed(contents, runID, i + 1, i, contents[i].LastModified)
    ELSE latestKey_LastListed(contents, runID, i + 1, key, lastModified)

\* A selection that takes the newest object whatever its key
RECURSIVE latestKey_AnyKey(_, _, _, _, _)
latestKey_AnyKey(contents, runID, i, key, lastModified) ==
    IF i > Len(contents)
    THEN key
    ELSE IF lastModified < contents[i].LastModified
    THEN latestKey_AnyKey(contents, runID, i + 1, i, contents[i].LastModified)
    ELSE latestKey_AnyKey(contents, runID, i + 1, key, lastModified)

\* The loop of getS3Object over result.Contents: the index of the object it
\* picks (0: none), after the first i-1 objects gave key with lastModified.
\* A key is a sequence of parts; the zero time is 0.
RECURSIVE latestKey(_, _, _, _, _)
latestKey(contents, runID, i, key, lastModified) ==
    IF i > Len(contents)
    THEN key
    ELSE IF Contains(contents[i].Key, runID) /\ lastModified < contents[i].LastModified
    THEN latestKey(contents, runID, i + 1, i, contents[i].LastModified)
    ELSE latestKey(contents, runID, i + 1, key, lastModified)

\* getS3Key of the object picked: key is its index in contents
getS3Key(contents, key, getOk) ==
    [result |-> IF getOk THEN Some(contents[key].Body) ELSE Nil,
     err |-> ~getOk,
     calls |-> <<Call("GetObject", contents[key].Key, getOk, Nil)>>]

\* listAns: Nil, or Some(the Contents of the listing); getOk: whether
\* GetObject succeeds
getS3Object(r, listAns, getOk) ==
    IF r.PodName = Nil
    THEN [result |-> Nil, err |-> TRUE, calls |-> <<>>]
    ELSE IF listAns = Nil \/ Len(Val(listAns)) = 0
    THEN [result |-> Nil, err |-> TRUE,
          calls |-> <<Call("ListObjects", <<"logs", r.RunID>>, listAns # Nil, listAns)>>]
    ELSE IF latestKey(Val(listAns), r.RunID, 1, 0, 0) # 0
    THEN [getS3Key(Val(listAns), latestKey(Val(listAns), r.RunID, 1, 0, 0), getOk)
             EXCEPT !.calls = <<Call("ListObjects", <<"logs", r.RunID>>, TRUE, listAns)>> \o @]
    ELSE [result |-> Nil, err |-> TRUE,
          calls |-> <<Call("ListObjects", <<"logs", r.RunID>>, TRUE, listAns)>>]

\* The end of Logs: object is what getS3Object returned
logsOf(object, startPosition) ==
    IF object.result # Nil /\ ~object.err
    THEN [text |-> logsToMessageString(Val(object.result), startPosition).acc,
          lastSeen |-> Some(FormatInt(
                         logsToMessageString(Val(object.result), startPosition).position)),
          err |-> FALSE,
          calls |-> object.calls]
    ELSE [text |-> <<>>, lastSeen |-> Some(<<>>), err |-> TRUE, calls |-> object.calls]

\* lastSeen: Nil, or Some(the cursor)
Logs(r, lastSeen, listAns, getOk) ==
    logsOf(getS3Object(r, listAns, getOk),
           IF lastSeen # Nil /\ ParseInt(Val(lastSeen)) # Nil
           THEN Val(ParseInt(Val(lastSeen))) ELSE 0)

\* The end of LogsText: read is whether the body of an object was streamed
textOf(object) ==
    IF object.result # Nil /\ ~object.err
    THEN [w |-> logsToMessage(Val(object.result), 1, <<>>).w,
          err |-> logsToMessage(Val(object.result), 1, <<>>).err,
          read |-> TRUE, calls |-> object.calls]
    ELSE [w |-> <<>>, err |-> FALSE, read |-> FALSE, calls |-> object.calls]

LogsText(r, listAns, getOk) == textOf(getS3Object(r, listAns, getOk))

----------------------------------------------------------------------------
(* The cluster as the engine sees it.                                      *)

Answers(S) == {Nil} \cup {Some(x) : x \in S}

\* Create of a Job whose name the cluster holds is rejected
CreateAnswers(name, held) ==
    IF name \in held
    THEN {Some(m) : m \in ErrorMessages}
    ELSE Answers({m \in ErrorMessages : ~Contains(ToLower(m), "already exists")
                                       \/ Contains(m, "is invalid")})

\* Get of a Job the cluster does not hold fails
JobAnswers(held, t) ==
    IF RunID \in held THEN Answers(JobStatuses(t)) ELSE {Nil}

\* The answers to a pod list with at most one pod, and a failed list
OnePodAnswers == Answers(PodLists({"p1"}, {1}, PodKinds))

\* Only a pass that lists no pod can issue Terminate
DeleteAnswers(podAns) == IF podAns = Some(<<>>) THEN BOOLEAN ELSE {TRUE}

PodsShape(podAns) ==
    IF podAns = Nil THEN "fail" ELSE IF Len(Val(podAns)) = 0 THEN "empty" ELSE "some"

NoCall ==
    [op |-> "none", err |-> FALSE, retryable |-> FALSE, msg |-> Nil,
     pods |-> "fail", metrics |-> Nil, terminate |-> FALSE, deleted |-> FALSE,
     failed |-> {}, runs |-> <<>>, podList |-> Nil, events |-> <<>>]

----------------------------------------------------------------------------
(* Spec: one Run through Execute, Get and FetchUpdateStatus, for every     *)
(* Job status and every list of at most one pod the cluster may answer     *)
(* with.  The metrics service reports no container and the event list is   *)
(* empty or fails; with one pod listed, both loop variable semantics give  *)
(* the same pod.                                                           *)

Init ==
    /\ run = NewRun(Nil, Nil, Some(SpotLifecycle))
    /\ now = 0
    /\ jobs = {}
    /\ ret = NoCall
    /\ calls = <<>>
    /\ queue = <<>>
    /\ logs = <<>>
    /\ eng = <<>>
    /\ plan = <<>>

Tick ==
    /\ now < MaxNow
    /\ now' = now + HoursBack + 1
    /\ UNCHANGED <<calls, queue, logs, run, jobs, ret, eng, plan>>

DoExecute ==
    \E name \in {Val(ExecuteJob(run)).Name} :
      \E createAns \in CreateAnswers(name, jobs), podAns \in OnePodAnswers :
        \E res \in {Execute(run, createAns, podAns, now)} :
            /\ run' = res.run
            /\ jobs' = IF createAns = Nil THEN jobs \cup {name} ELSE jobs
            /\ ret' = [NoCall EXCEPT !.op = "Execute", !.err = res.err # Nil,
                                     !.retryable = res.retryable, !.msg = createAns,
                                     !.pods = PodsShape(podAns)]
            /\ UNCHANGED <<calls, queue, logs, now, eng, plan>>

\* A caller keeps its Run when Get fails: state.Run{} carries no RunID
DoGet ==
    \E jobAns \in JobAnswers(jobs, now) :
        \E res \in {Get(run, jobAns, now)} :
            /\ run' = IF res.err THEN run ELSE res.run
            /\ ret' = [NoCall EXCEPT !.op = "Get", !.err = res.err]
            /\ UNCHANGED <<calls, queue, logs, now, jobs, eng, plan>>

\* The return of FetchUpdateStatus: the Run and the error returned, the pod
\* list, the metrics and the events the pass got, whether Terminate was
\* issued and whether it deleted the Job, and the calls of the pass that
\* failed
FetchUpdateStatusReturns(r, err, podAns, metricsAns, events, terminate, deleted, failed) ==
    /\ run' = r
    /\ jobs' = IF deleted THEN jobs \ {run.RunID} ELSE jobs
    /\ ret' = [NoCall EXCEPT !.op = "FetchUpdateStatus", !.err = err,
                             !.pods = PodsShape(podAns),
                             !.podList = podAns,
                             !.metrics = metricsAns,
                             !.events = events,
                             !.terminate = terminate,
                             !.deleted = deleted,
                             !.failed = failed]
    /\ UNCHANGED <<calls, queue, logs, now, eng, plan>>

\* FetchUpdateStatus on the Run, statement by statement: pod is
\* mostRecentPod, r1 the Run after the pod list was read, r2 after the
\* metrics, r3 after the events
FetchUpdateStatus(jobAns, podAns, loopvar, metricsAns, eventsAns, deleteOk, podDeleteOk) ==
    IF jobAns = Nil
    THEN FetchUpdateStatusReturns(run, TRUE, Nil, Nil, <<>>, FALSE, FALSE, {"job"})
    ELSE \E pod \in {IF podAns # Nil /\ Len(Val(podAns)) > 0
                      THEN mostRecentPod(Val(podAns), loopvar) ELSE Nil} :
         \E r1 \in {IF pod # Nil THEN updatePod(run, Val(pod)) ELSE run} :
         \E r2 \in {FetchPodMetrics(r1, metricsAns).run} :
         \E events \in {GetEvents(r2, eventsAns)} :
         \E r3 \in {updateEvents(r2, events)} :
         \E dangling \in {/\ ~events.err
                           /\ podAns # Nil
                           /\ Len(Val(podAns)) = 0
                           /\ r3.PodName # Nil
                           /\ r3.QueuedAt < now - HoursBack} :
         \E terminated \in {dangling /\ ~Terminate(r3, deleteOk, podDeleteOk).err} :
            FetchUpdateStatusReturns(
                AdaptJobToFlotillaRun(
                    IF terminated THEN [Val(jobAns) EXCEPT !.Failed = 1] ELSE Val(jobAns),
                    r3, IF terminated THEN Nil ELSE pod, now),
                FALSE, podAns, metricsAns, events.PodEvents, dangling, terminated,
                (IF podAns = Nil THEN {"pods"} ELSE {})
                \cup (IF r1.PodName # Nil /\ metricsAns = Nil THEN {"metrics"} ELSE {})
                \cup (IF events.err THEN {"events"} ELSE {}))

\* One FetchUpdateStatus pass, for the answers of the given sets
Reconcile(JobAs, PodAs, loopvars, MetricsAs, EventsAs) ==
    \E jobAns \in JobAs, podAns \in PodAs, loopvar \in loopvars,
       metricsAns \in MetricsAs, eventsAns \in EventsAs :
      \E deleteOk \in DeleteAnswers(podAns), podDeleteOk \in DeleteAnswers(podAns) :
        FetchUpdateStatus(jobAns, podAns, loopvar, metricsAns, eventsAns, deleteOk,
                          podDeleteOk)

DoFetchUpdateStatus ==
    Reconcile(JobAnswers(jobs, now), OnePodAnswers, {"shared"}, {Some(<<>>)},
              {Nil, Some(<<>>)})

Next == Tick \/ DoExecute \/ DoGet \/ DoFetchUpdateStatus

Spec == Init /\ [][Next]_vars

----------------------------------------------------------------------------
(* SpecPlan: the forward adapter applied once to a definition, a Run and   *)
(* the answers of the state manager.  The manager is asked for the last    *)
(* run and for an estimate only when ARA applies.                          *)

Executables ==
    [Cpu : {Nil, Some(500), Some(40000)},
     Memory : {Nil, Some(2048), Some(36864), Some(40000), Some(131072), Some(300000)},
     Gpu : {Nil, Some(0), Some(2)},
     AdaptiveResourceAllocation : {Nil, Some(FALSE), Some(TRUE)}]

PlanRuns ==
    {NewRun(c, m, l) : c \in {Nil, Some(0), Some(100)},
                       m \in {Nil, Some(0), Some(1000)},
                       l \in {Nil, Some(SpotLifecycle), Some(OndemandLifecycle)}}

PriorRun(reason, cpu, mem) ==
    [NewRun(Some(cpu), Some(mem), Some(SpotLifecycle)) EXCEPT
        !.Status = StatusStopped, !.ExitCode = Some(1), !.FinishedAt = Some(0),
        !.ExitReason = Some(reason)]

OOMReasons == {<<"OOMKilled">>}
OtherReasons == {<<"Error">>}
PriorCpus == {100, 1500}
PriorMems == {4000, 4001, 200000}

Estimates ==
    {[Cpu |-> 50, Memory |-> 100], [Cpu |-> 2000, Memory |-> 4096],
     [Cpu |-> 50000, Memory |-> 300000]}

NoManager == [runs |-> Nil, estimate |-> Nil]

Managers ==
    {[runs |-> Some(<<PriorRun(x, c, m)>>), estimate |-> e] :
        x \in OOMReasons, c \in PriorCpus, m \in PriorMems,
        e \in {Nil, Some([Cpu |-> 50000, Memory |-> 300000])}}
    \cup
    {[runs |-> l, estimate |-> e] :
        l \in {Nil, Some(<<>>)}
              \cup {Some(<<PriorRun(x, c, 4000)>>) : x \in OtherReasons, c \in PriorCpus},
        e \in Answers(Estimates)}

AraApplies(executable, araEnabled) ==
    araEnabled /\ executable.AdaptiveResourceAllocation = Some(TRUE)

\* The manager is not asked when ARA does not apply
ManagersFor(executable, araEnabled) ==
    IF AraApplies(executable, araEnabled) THEN Managers ELSE {NoManager}

NoPlan == [done |-> FALSE, res |-> Nil, planned |-> Nil, job |-> Nil]

InitPlan ==
    /\ run = NewRun(Nil, Nil, Some(SpotLifecycle))
    /\ now = 0
    /\ jobs = {}
    /\ ret = NoCall
    /\ calls = <<>>
    /\ queue = <<>>
    /\ logs = <<>>
    /\ eng = <<>>
    /\ \E x \in Executables, r \in PlanRuns, a \in BOOLEAN :
          \E m \in ManagersFor(x, a) :
              plan = [in |-> [executable |-> x, run |-> r, araEnabled |-> a,
                              manager |-> m],
                      out |-> NoPlan]

DoPlan ==
    /\ ~plan.out.done
    /\ LET i == plan.in
       IN  plan' = [plan EXCEPT !.out =
               [done |-> TRUE,
                res |-> Some(adaptiveResources(i.executable, i.run, i.manager,
                                               i.araEnabled)),
                planned |-> Some(constructResourceRequirements(
                                     i.executable, i.run, i.manager, i.araEnabled).run),
                job |-> AdaptFlotillaDefinitionAndRunToJob(
                            i.executable, i.run, i.manager, i.araEnabled)]]
    /\ UNCHANGED <<calls, queue, logs, run, now, jobs, ret, eng>>

NextPlan == DoPlan

SpecPlan == InitPlan /\ [][NextPlan]_vars

----------------------------------------------------------------------------
(* SpecSubmit: several engine instances run Execute for the same Run.  An  *)
(* Execute is suspended at its two cluster calls, the Create and the pod   *)
(* list, and the instances interleave there.                               *)

NumEngines == 2

Engines == 1..NumEngines

Idle ==
    [pc |-> "start", create |-> Nil, dup |-> FALSE, during |-> FALSE,
     res |-> [run |-> EmptyRun, retryable |-> FALSE, err |-> Nil]]

InitSubmit ==
    /\ run = NewRun(Nil, Nil, Some(SpotLifecycle))
    /\ now = 0
    /\ jobs = {}
    /\ ret = NoCall
    /\ calls = <<>>
    /\ queue = <<>>
    /\ logs = <<>>
    /\ plan = <<>>
    /\ eng = [e \in Engines |-> Idle]

\* The Create of engine e: a rejected Create ends the Execute
SubmitCreate(e) ==
    /\ eng[e].pc = "start"
    /\ \E name \in {Val(ExecuteJob(run)).Name} :
           \E createAns \in CreateAnswers(name, jobs) :
             /\ jobs' = IF createAns = Nil THEN jobs \cup {name} ELSE jobs
             /\ eng' = [eng EXCEPT ![e] =
                   [pc |-> IF createAns = Nil THEN "list" ELSE "done",
                    create |-> createAns,
                    dup |-> name \in jobs,
                    during |-> \E o \in Engines \ {e} : eng[o].pc = "list",
                    res |-> IF createAns = Nil THEN Idle.res
                            ELSE Execute(run, createAns, Nil, now)]]
    /\ UNCHANGED <<calls, queue, logs, run, now, ret, plan>>

\* The pod list of engine e, and the return of its Execute
SubmitList(e) ==
    /\ eng[e].pc = "list"
    /\ \E podAns \in OnePodAnswers :
          eng' = [eng EXCEPT ![e].pc = "done",
                             ![e].res = Execute(run, Nil, podAns, now)]
    /\ UNCHANGED <<calls, queue, logs, run, now, jobs, ret, plan>>

NextSubmit == \E e \in Engines : SubmitCreate(e) \/ SubmitList(e)

SpecSubmit == InitSubmit /\ [][NextSubmit]_vars

----------------------------------------------------------------------------
(* SpecMetrics and SpecEvents: the passes over a Run whose Job the cluster *)
(* holds and reports as running, while the pod of the Run, the usage the   *)
(* metrics service reports and the events of the pod change.               *)

RunningJob == [Active |-> 1, Succeeded |-> 0, Failed |-> 0, CompletionTime |-> Nil]

\* the lists of at most one running pod, of either name
NamedPodAnswers == Answers(PodLists(PodNames, {1}, {"running"}))

\* PodMetrics.Containers: no container, or the usage of one
UsageLists ==
    {<<>>} \cup {<<[Cpu |-> c, Memory |-> m]>> : c \in 0..MaxUsage, m \in 0..MaxUsage}

EventLists == UNION {[1..n -> {EventOf(x) : x \in EventNames}] : n \in 0..MaxEvents}

InitHeld ==
    /\ run = NewRun(Nil, Nil, Some(SpotLifecycle))
    /\ now = 0
    /\ jobs = {RunID}
    /\ ret = NoCall
    /\ calls = <<>>
    /\ queue = <<>>
    /\ logs = <<>>
    /\ eng = <<>>
    /\ plan = <<>>

DoFetchPodMetrics ==
    \E metricsAns \in Answers(UsageLists) :
        \E res \in {FetchPodMetrics(run, metricsAns)} :
            /\ run' = res.run
            /\ ret' = [NoCall EXCEPT !.op = "FetchPodMetrics", !.err = res.err,
                                     !.metrics = metricsAns]
            /\ UNCHANGED <<calls, queue, logs, now, jobs, eng, plan>>

MetricsPass ==
    Reconcile({Nil, Some(RunningJob)}, NamedPodAnswers, {"shared"},
              Answers(UsageLists), {Some(<<>>)})

NextMetrics == DoFetchPodMetrics \/ MetricsPass

SpecMetrics == InitHeld /\ [][NextMetrics]_vars

EventsPass ==
    Reconcile({Nil, Some(RunningJob)}, NamedPodAnswers, {"shared"},
              {Some(<<>>)}, Answers(EventLists))

NextEvents == EventsPass

SpecEvents == InitHeld /\ [][NextEvents]_vars

----------------------------------------------------------------------------
(* SpecReconcile: the passes over a Run whose Job the cluster holds and    *)
(* reports as running, while each of the four observations of a pass (the  *)
(* Job, the pod list, the metrics, the events) succeeds or fails.  The     *)
(* cluster lists one or two pods, created at different or equal times, in  *)
(* either order, and the build gives the loop over them either loop        *)
(* variable.                                                               *)

PodTimes == {1, 2}

ListedPodAnswers == Answers(PodLists(PodNames, PodTimes, {"running"}))

ReportedUsage == {Nil, Some(<<>>), Some(<<[Cpu |-> 1, Memory |-> 1]>>)}

ReportedEvents == {Nil, Some(<<>>), Some(<<EventOf("ev1")>>)}

ReconcilePass ==
    Reconcile({Nil, Some(RunningJob)}, ListedPodAnswers, LoopVars,
              ReportedUsage, ReportedEvents)

NextReconcile == ReconcilePass

SpecReconcile == InitHeld /\ [][NextReconcile]_vars

----------------------------------------------------------------------------
(* SpecJob: Get and FetchUpdateStatus passes over a Run whose Job has, in  *)
(* the cluster, a status that does not change while the clock advances:    *)
(* any status, a finished Job with or without a CompletionTime among them. *)
(* A pass gets that status, or fails to get the Job.                       *)

HeldJobAnswers == IF RunID \in jobs THEN Answers({eng}) ELSE {Nil}

InitJob ==
    /\ run = NewRun(Nil, Nil, Some(SpotLifecycle))
    /\ now = 0
    /\ jobs = {RunID}
    /\ ret = NoCall
    /\ calls = <<>>
    /\ queue = <<>>
    /\ logs = <<>>
    /\ plan = <<>>
    /\ eng \in JobStatuses(0)

GetPass ==
    \E jobAns \in HeldJobAnswers :
        \E res \in {Get(run, jobAns, now)} :
            /\ run' = IF res.err THEN run ELSE res.run
            /\ ret' = [NoCall EXCEPT !.op = "Get", !.err = res.err]
            /\ UNCHANGED <<calls, queue, logs, now, jobs, eng, plan>>

JobPass ==
    Reconcile(HeldJobAnswers, OnePodAnswers, {"shared"}, {Some(<<>>)}, {Some(<<>>)})

NextJob == Tick \/ GetPass \/ JobPass

SpecJob == InitJob /\ [][NextJob]_vars

----------------------------------------------------------------------------
(* SpecOps: Terminate, Enqueue and PollRuns, called with any of a few Runs *)
(* while the cluster and the queue manager answer each call with success   *)
(* or failure.  A published run joins the job queue; a run the queue       *)
(* dispenses leaves it.                                                    *)

MaxQueue == 2

OpsRuns ==
    {[NewRun(Nil, Nil, Some(SpotLifecycle)) EXCEPT !.RunID = id, !.PodName = p] :
        id \in {"r1", "r2"}, p \in {Nil, Some("p1")}}

\* QurlFor: a failure, or the url of the job queue
QueueUrls == {Nil, Some("qurl")}

\* ReceiveRun: a failure, the empty receipt, or the receipt of the run at
\* the head of the queue
Receipts(q) ==
    {Nil, Some([Run |-> Nil])}
    \cup (IF Len(q) > 0 THEN {Some([Run |-> Some(Head(q))])} ELSE {})

IsPublish(c) == c.call = "Enqueue" /\ c.ok
IsDispense(c) == c.call = "ReceiveRun" /\ c.ok /\ Val(c.out).Run # Nil

InitOps ==
    /\ run = NewRun(Nil, Nil, Some(SpotLifecycle))
    /\ now = 0
    /\ jobs = {"r1", "r2"}
    /\ ret = NoCall
    /\ eng = <<>>
    /\ plan = <<>>
    /\ calls = <<>>
    /\ queue = <<>>
    /\ logs = <<>>

\* The cluster deletes only a Job it holds; no pod delete is answered when
\* the Run has no pod
DoTerminate ==
    \E r \in OpsRuns :
      \E deleteOk \in (IF r.RunID \in jobs THEN BOOLEAN ELSE {FALSE}),
         podDeleteOk \in (IF r.PodName # Nil THEN BOOLEAN ELSE {TRUE}) :
        \E res \in {Terminate(r, deleteOk, podDeleteOk)} :
            /\ run' = r
            /\ jobs' = IF deleteOk THEN jobs \ {r.RunID} ELSE jobs
            /\ calls' = res.calls
            /\ ret' = [NoCall EXCEPT !.op = "Terminate", !.err = res.err]
            /\ UNCHANGED <<now, eng, plan, queue, logs>>

DoEnqueue ==
    /\ Len(queue) < MaxQueue
    /\ \E r \in OpsRuns, urlAns \in QueueUrls :
         \E publishOk \in (IF urlAns = Nil THEN {FALSE} ELSE BOOLEAN) :
           \E res \in {Enqueue(r, urlAns, publishOk)} :
               /\ run' = r
               /\ queue' = queue \o [i \in 1..Len(SelectSeq(res.calls, IsPublish)) |-> r]
               /\ calls' = res.calls
               /\ ret' = [NoCall EXCEPT !.op = "Enqueue", !.err = res.err]
               /\ UNCHANGED <<now, jobs, eng, plan, logs>>

DoPollRuns ==
    \E urlAns \in QueueUrls :
      \E receiveAns \in (IF urlAns = Nil THEN {Nil} ELSE Receipts(queue)) :
        \E res \in {PollRuns(urlAns, receiveAns)} :
            /\ queue' = IF Len(SelectSeq(res.calls, IsDispense)) > 0
                        THEN Tail(queue) ELSE queue
            /\ calls' = res.calls
            /\ ret' = [NoCall EXCEPT !.op = "PollRuns", !.err = res.err,
                                     !.runs = res.runs]
            /\ UNCHANGED <<run, now, jobs, eng, plan, logs>>

NextOps == DoTerminate \/ DoEnqueue \/ DoPollRuns

SpecOps == InitOps /\ [][NextOps]_vars

----------------------------------------------------------------------------
(* SpecEnv: envOverrides applied once to the environment of a definition   *)
(* and the environment of a Run.                                           *)

MaxName == 2          \* the longest name of an environment variable
MaxDefEnv == 2        \* the longest environment of a definition
MaxRunEnv == 1        \* the longest environment of a Run

EnvChars == {"$", " ", "A"}

EnvNames(n) == UNION {[1..k -> EnvChars] : k \in 0..n}

EnvLists(n, names) ==
    UNION {[1..k -> [Name : names, Value : {"a", "b"}]] : k \in 0..n}

InitEnv ==
    /\ run = NewRun(Nil, Nil, Some(SpotLifecycle))
    /\ now = 0
    /\ jobs = {}
    /\ ret = NoCall
    /\ eng = <<>>
    /\ calls = <<>>
    /\ queue = <<>>
    /\ logs = <<>>
    /\ \E d \in EnvLists(MaxDefEnv, EnvNames(MaxName)),
          r \in EnvLists(MaxRunEnv, EnvNames(MaxName)) :
          plan = [in |-> [executableEnv |-> d, runEnv |-> r],
                  out |-> [done |-> FALSE, env |-> {}]]

DoEnvOverrides ==
    /\ ~plan.out.done
    /\ plan' = [plan EXCEPT !.out = [done |-> TRUE,
                                     env |-> envOverrides(plan.in.executableEnv,
                                                          plan.in.runEnv)]]
    /\ UNCHANGED <<run, now, jobs, ret, eng, calls, queue, logs>>

NextEnv == DoEnvOverrides

SpecEnv == InitEnv /\ [][NextEnv]_vars

----------------------------------------------------------------------------
(* SpecLogs: Logs called on a run whose log object has a fixed body.  A    *)
(* pager starts with no cursor and passes each cursor Logs returns to its  *)
(* next call, while S3 serves the object; other callers call Logs with any *)
(* cursor, for a run with or without a pod, while S3 answers the listing   *)
(* in any way.  The log field of the i-th line of the body is i.           *)

MaxLines == 3         \* the most lines that end with a newline in a body

LineSeqs(n) ==
    UNION {{l \in [1..k -> {Nil} \cup {Some(i) : i \in 1..k}] :
               \A i \in 1..k : l[i] \in {Nil, Some(i)}} : k \in 0..n}

Bodies(n) ==
    UNION {{[lines |-> l, tail |-> t] : t \in {Nil, Some(Len(l) + 1)}} :
              l \in LineSeqs(n)}

\* the body of the log object of an earlier pod, or of another run
OtherBody == [lines |-> <<Some(0)>>, tail |-> Nil]

S3Object(key, lastModified, body) ==
    [Key |-> key, LastModified |-> lastModified, Body |-> body]

LogObject(body) == S3Object(<<"logs", RunID, "pod-b.log">>, 2, body)
EarlierObject == S3Object(<<"logs", RunID, "pod-a.log">>, 1, OtherBody)
ForeignObject == S3Object(<<"logs", "r2", "pod-c.log">>, 3, OtherBody)

\* ListObjects: a failure, or the Contents
ListAnswers(body) ==
    {Nil, Some(<<>>), Some(<<ForeignObject>>), Some(<<LogObject(body)>>),
     Some(<<EarlierObject, LogObject(body)>>),
     Some(<<LogObject(body), EarlierObject>>),
     Some(<<ForeignObject, LogObject(body)>>)}

\* GetObject is called only for a listing with a key of the run
GetAnswers(listAns) ==
    IF listAns # Nil /\ \E i \in DOMAIN Val(listAns) : Contains(Val(listAns)[i].Key, RunID)
    THEN BOOLEAN ELSE {TRUE}

Cursors(n) ==
    {Nil, Some(<<>>), Some(<<"x">>), Some(<<"-", "1">>)}
    \cup {Some(FormatInt(k)) : k \in 0..(n + 2)}

LogRuns ==
    {[NewRun(Nil, Nil, Some(SpotLifecycle)) EXCEPT !.PodName = p] : p \in {Nil, Some("p1")}}

NoLogs == [text |-> <<>>, lastSeen |-> Nil]

InitLogs ==
    /\ run = NewRun(Nil, Nil, Some(SpotLifecycle))
    /\ now = 0
    /\ jobs = {}
    /\ ret = NoCall
    /\ eng = <<>>
    /\ plan = <<>>
    /\ calls = <<>>
    /\ queue = <<>>
    /\ \E b \in Bodies(MaxLines) :
          logs = [body |-> b, lastSeen |-> Nil, text |-> <<>>, done |-> FALSE,
                  last |-> NoLogs, sink |-> Nil]

LogsReturns(r, res) ==
    /\ run' = r
    /\ calls' = res.calls
    /\ ret' = [NoCall EXCEPT !.op = "Logs", !.err = res.err]
    /\ UNCHANGED <<now, jobs, eng, plan, queue>>

\* The next call of the pager; done: the call returned no text and the
\* cursor it was given
LogsPage ==
    \E r \in {x \in LogRuns : x.PodName # Nil} :
      \E res \in {Logs(r, logs.lastSeen, Some(<<LogObject(logs.body)>>), TRUE)} :
        /\ logs' = [logs EXCEPT !.lastSeen = res.lastSeen,
                                !.text = @ \o res.text,
                                !.done = res.text = <<>> /\ res.lastSeen = logs.lastSeen,
                                !.last = [text |-> res.text, lastSeen |-> res.lastSeen]]
        /\ LogsReturns(r, res)

LogsCall ==
    \E r \in LogRuns, lastSeen \in Cursors(MaxLines), listAns \in ListAnswers(logs.body) :
      \E getOk \in GetAnswers(listAns) :
        \E res \in {Logs(r, lastSeen, listAns, getOk)} :
          /\ logs' = [logs EXCEPT !.last = [text |-> res.text, lastSeen |-> res.lastSeen]]
          /\ LogsReturns(r, res)

\* LogsText with a fresh sink: sink holds what the last call that streamed
\* the object wrote
LogsTextCall ==
    \E r \in LogRuns, listAns \in ListAnswers(logs.body) :
      \E getOk \in GetAnswers(listAns) :
        \E res \in {LogsText(r, listAns, getOk)} :
          /\ logs' = [logs EXCEPT !.sink = IF res.read THEN Some(res.w) ELSE @]
          /\ run' = r
          /\ calls' = res.calls
          /\ ret' = [NoCall EXCEPT !.op = "LogsText", !.err = res.err]
          /\ UNCHANGED <<now, jobs, eng, plan, queue>>

NextLogs == LogsPage \/ LogsCall

SpecLogs == InitLogs /\ [][NextLogs]_vars

\* SpecText: the pager and LogsText on the same object
NextText == LogsPage \/ LogsTextCall

SpecText == InitLogs /\ [][NextText]_vars

----------------------------------------------------------------------------
(* The properties.                                                         *)

StatusRank(status) ==
    CASE status = StatusQueued -> 0
      [] status = StatusRunning -> 1
      [] status = StatusStopped -> 2
      [] OTHER -> 0

\* C1: over any sequence of Execute, Get and FetchUpdateStatus calls on one
\* Run, whatever the cluster reports, the Status of the Run only moves
\* forward along queued -> running -> stopped.
C1_StatusMovesForward ==
    [][StatusRank(run'.Status) >= StatusRank(run.Status)]_vars

\* C2: every Run that Get or FetchUpdateStatus returns as stopped has its
\* ExitCode and its FinishedAt set.
C2_StoppedHasExitCodeAndFinishedAt ==
    (ret.op \in {"Get", "FetchUpdateStatus"} /\ run.Status = StatusStopped)
        => (run.ExitCode # Nil /\ run.FinishedAt # Nil)

\* a Get pass over a Run that an earlier pass stopped with the exit code of its pod
C2_Witness ==
    /\ ret.op = "Get"
    /\ ~ret.err
    /\ run.Status = StatusStopped
    /\ run.ExitCode = Some(137)
    /\ run.FinishedAt # Nil

\* the Create of engine e was accepted, or rejected for the Job the cluster held
Submitted(e) ==
    \/ eng[e].create = Nil
    \/ eng[e].dup /\ Contains(ToLower(Val(eng[e].create)), "already exists")

\* C3: when every Execute for the same RunID has returned, and each Create
\* was accepted or rejected as "already exists" for the Job the cluster
\* held, every Execute returned err = nil and retryable = false, and the
\* cluster holds the one Job named RunID.
C3_SubmitIdempotent ==
    (\A e \in Engines : eng[e].pc = "done" /\ Submitted(e))
        => /\ \A e \in Engines : eng[e].res.err = Nil /\ ~eng[e].res.retryable
           /\ jobs = {RunID}

\* one Create was accepted, and another was rejected while the first Execute was
\* between its Create and its return
C3_Witness ==
    /\ \A e \in Engines : eng[e].pc = "done" /\ Submitted(e)
    /\ \E e \in Engines : eng[e].create # Nil /\ eng[e].during

\* the error message of a Create holds the phrase, whatever the case of its letters
Has(createAns, phrase) == Contains(ToLower(Val(createAns)), phrase)

C5_DanglingJobStopped ==
    (/\ ret.op = "FetchUpdateStatus"
     /\ ~ret.err
     /\ ret.pods = "empty"
     /\ run.PodName # Nil
     /\ run.QueuedAt < now - HoursBack)
        => (ret.terminate /\ run.Status = StatusStopped /\ run.ExitCode = Some(1))

\* C6: the PodEvents of the Run hold no two value-equal entries, after any
\* number of passes and for any event lists.
C6_NoEqualEvents ==
    \A i, j \in DOMAIN run.PodEvents :
        i # j => ~PodEventEqual(run.PodEvents[i], run.PodEvents[j])

NotLower(before, after) ==
    before = Nil \/ (after # Nil /\ Val(after) >= Val(before))

\* C7: no FetchPodMetrics or FetchUpdateStatus pass returns a MaxCpuUsed or
\* a MaxMemoryUsed lower than the one of the Run passed in.
C7_WatermarksNeverDecrease ==
    [][/\ NotLower(run.MaxCpuUsed, run'.MaxCpuUsed)
       /\ NotLower(run.MaxMemoryUsed, run'.MaxMemoryUsed)]_vars

\* a pass over another pod reported a lower usage than the watermarks
C7_Witness ==
    /\ ret.op = "FetchUpdateStatus"
    /\ ret.metrics = Some(<<[Cpu |-> 1, Memory |-> 0]>>)
    /\ run.PodName = Some("p2")
    /\ run.MaxCpuUsed = Some(MaxUsage)
    /\ run.MaxMemoryUsed = Some(1)

Clamp(v, lo, hi) == IF v < lo THEN lo ELSE IF v > hi THEN hi ELSE v

\* C8: the planned resources satisfy MinCPU <= cpuRequest <= cpuLimit <=
\* MaxCPU and MinMem <= memRequest <= memLimit <= MaxMem.
C8_RequestWithinLimitWithinBounds ==
    plan.out.done =>
        LET res == Val(plan.out.res)
        IN  /\ MinCPU <= res.cpuRequest /\ res.cpuRequest <= res.cpuLimit
            /\ res.cpuLimit <= MaxCPU
            /\ MinMem <= res.memRequest /\ res.memRequest <= res.memLimit
            /\ res.memLimit <= MaxMem

\* an estimate below the minimum under a default above the maximum
C8_Witness ==
    /\ plan.out.done
    /\ AraApplies(plan.in.executable, plan.in.araEnabled)
    /\ Val(plan.out.res).cpuRequest = MinCPU
    /\ Val(plan.out.res).cpuLimit = MaxCPU
    /\ Val(plan.out.res).memRequest < Val(plan.out.res).memLimit

\* ARA applies and the last run was killed for memory
AfterOOM ==
    /\ plan.out.done
    /\ AraApplies(plan.in.executable, plan.in.araEnabled)
    /\ plan.in.manager.runs # Nil
    /\ Len(Val(plan.in.manager.runs)) > 0
    /\ Val(plan.in.manager.runs)[1].ExitReason # Nil
    /\ Contains(Val(Val(plan.in.manager.runs)[1].ExitReason), "OOMKilled")

PriorMem == Val(Val(plan.in.manager.runs)[1].Memory)
PriorCpu == Val(Val(plan.in.manager.runs)[1].Cpu)

C10_GpuJobIsOndemand ==
    (/\ plan.out.done
     /\ plan.in.executable.Gpu # Nil
     /\ Val(plan.in.executable.Gpu) > 0)
        => /\ plan.out.job # Nil
           /\ Val(plan.out.job).Resources.requests.gpu = plan.in.executable.Gpu
           /\ Val(plan.out.job).Resources.limits.gpu = plan.in.executable.Gpu
           /\ Val(plan.out.job).Affinity.lifecycle = <<"normal">>
           /\ Val(plan.out.job).ActiveDeadlineSeconds = OndemandActiveDeadlineSeconds
           /\ Val(plan.out.planned).NodeLifecycle = Some(OndemandLifecycle)

\* a gpu definition run with the spot lifecycle
C10_Witness ==
    /\ plan.out.done
    /\ plan.in.executable.Gpu = Some(2)
    /\ plan.in.run.NodeLifecycle = Some(SpotLifecycle)
    /\ plan.out.job # Nil

----------------------------------------------------------------------------
\* C13: a FetchUpdateStatus pass in which getting the Job, listing the
\* pods, fetching the pod metrics or fetching the events failed returns an
\* error
C13_FailedObservationReturned ==
    (ret.op = "FetchUpdateStatus" /\ ret.failed # {}) => ret.err

\* C17: the Run returned by an Execute whose Create was accepted, and by
\* every FetchUpdateStatus pass that found the Job, has Cpu and Memory set
\* and within the bounds
GrantedWithinBounds(r) ==
    /\ r.Cpu # Nil /\ Val(r.Cpu) >= MinCPU /\ Val(r.Cpu) <= MaxCPU
    /\ r.Memory # Nil /\ Val(r.Memory) >= MinMem /\ Val(r.Memory) <= MaxMem

C17_GrantedResourcesWithinBounds ==
    (\/ ret.op = "Execute" /\ ~ret.err /\ ret.msg = Nil
     \/ ret.op = "FetchUpdateStatus" /\ ~ret.err)
        => GrantedWithinBounds(run)

\* C18: an Execute of a queued Run whose Create the cluster accepts returns
\* the Run with Status running
C18_AcceptedCreateIsRunning ==
    [][(DoExecute /\ run.Status = StatusQueued /\ ret'.msg = Nil /\ ~ret'.err)
          => run'.Status = StatusRunning]_vars

\* C14: Terminate issues the delete of the Job named RunID, a pod delete
\* exactly when the Run has a PodName, and fails exactly when the Job
\* delete failed
IsJobDelete(c) == c.call = "Jobs.Delete"
IsPodDelete(c) == c.call = "Pods.Delete"

C14_TerminateBestEffort ==
    ret.op = "Terminate" =>
        LET jobDeletes == SelectSeq(calls, IsJobDelete)
            podDeletes == SelectSeq(calls, IsPodDelete)
        IN  /\ Len(jobDeletes) = 1 /\ jobDeletes[1].arg = run.RunID
            /\ IF run.PodName # Nil
               THEN Len(podDeletes) = 1 /\ podDeletes[1].arg = Val(run.PodName)
               ELSE Len(podDeletes) = 0
            /\ ret.err <=> ~jobDeletes[1].ok

C14_Witness ==
    /\ ret.op = "Terminate" /\ ~ret.err
    /\ \E i \in DOMAIN calls : calls[i].call = "Pods.Delete" /\ ~calls[i].ok

\* C19: a PollRuns makes at most one ReceiveRun and returns at most one
\* receipt: the one of the dispensed run, none for the empty receipt, and
\* none beside the failure of QurlFor or ReceiveRun
IsReceiveRun(c) == c.call = "ReceiveRun"
IsEnqueueCall(c) == c.call = "Enqueue"

C19_PollRunsAtMostOne ==
    ret.op = "PollRuns" =>
        LET receives == SelectSeq(calls, IsReceiveRun)
            failed == \E i \in DOMAIN calls : ~calls[i].ok
        IN  /\ Len(receives) <= 1
            /\ Len(ret.runs) <= 1
            /\ ret.err <=> failed
            /\ failed => ret.runs = <<>>
            /\ ~failed =>
                 /\ Len(receives) = 1
                 /\ IF Val(receives[1].out).Run # Nil
                    THEN ret.runs = <<Val(receives[1].out)>>
                    ELSE ret.runs = <<>>

C19_Witness ==
    /\ ret.op = "PollRuns" /\ ~ret.err /\ Len(ret.runs) = 1
    /\ Val(ret.runs[1].Run).RunID = "r2"

\* C20: Enqueue resolves the queue url first, publishes the run once to
\* that url when the url was resolved and not at all otherwise, and fails
\* exactly when the resolution or the publish failed
C20_EnqueueResolvesThenPublishes ==
    ret.op = "Enqueue" =>
        LET publishes == SelectSeq(calls, IsEnqueueCall)
        IN  /\ calls[1].call = "QurlFor"
            /\ IF calls[1].ok
               THEN /\ Len(publishes) = 1
                    /\ calls[2] = publishes[1]
                    /\ publishes[1].arg = <<Val(calls[1].out), run.RunID>>
               ELSE Len(publishes) = 0
            /\ ret.err <=> \E i \in DOMAIN calls : ~calls[i].ok

C20_Witness ==
    /\ ret.op = "Enqueue" /\ ret.err
    /\ Len(calls) = 2 /\ calls[1].ok /\ ~calls[2].ok

\* C16: no name in the environment of the container begins with "$",
\* holds a space or is empty, and no two of its variables have one name
C16_EnvNamesSanitized ==
    plan.out.done =>
        /\ \A e \in plan.out.env :
              /\ Len(e.Name) > 0
              /\ e.Name[1] # "$"
              /\ \A i \in DOMAIN e.Name : e.Name[i] # " "
        /\ \A e1, e2 \in plan.out.env : e1.Name = e2.Name => e1 = e2

\* C11: the texts the pager got, concatenated, are the log fields of the
\* first k lines of the object for some k, and of all its lines once a
\* call returns nothing new; the data after the last newline is the last
\* line of the object
LogFields(lines) ==
    [i \in 1..Cardinality({j \in DOMAIN lines : lines[j] # Nil}) |->
        Val(lines[CHOOSE j \in DOMAIN lines :
                     /\ lines[j] # Nil
                     /\ Cardinality({h \in 1..j : lines[h] # Nil}) = i])]

AllLines(body) ==
    IF body.tail = Nil THEN body.lines ELSE Append(body.lines, body.tail)

C11_PaginationLaw ==
    /\ \E k \in 0..Len(AllLines(logs.body)) :
          logs.text = LogFields(SubSeq(AllLines(logs.body), 1, k))
    /\ logs.done => logs.text = LogFields(AllLines(logs.body))

\* C12: a Logs call returns the log fields of at most MaxLogLines lines
C12_AtMostMaxLogLines ==
    ret.op = "Logs" => Len(logs.last.text) <= MaxLogLines

\* C15: Logs returns the no-logs error and no text, and gets no object,
\* when the run has no PodName, the listing is empty or no listed key
\* contains the RunID
NoLogsCase ==
    \/ run.PodName = Nil
    \/ /\ Len(calls) > 0 /\ calls[1].call = "ListObjects" /\ calls[1].ok
       /\ \A i \in DOMAIN Val(calls[1].out) :
             ~Contains(Val(calls[1].out)[i].Key, run.RunID)

C15_NoLogsError ==
    (ret.op = "Logs" /\ NoLogsCase) =>
        /\ ret.err
        /\ logs.last.text = <<>>
        /\ \A i \in DOMAIN calls : calls[i].call # "GetObject"

C15_Witness ==
    /\ ret.op = "Logs" /\ ret.err
    /\ Len(calls) = 1 /\ calls[1].ok /\ Len(Val(calls[1].out)) > 0

\* the entries of s at the indices in I, in the order of s
SubSeqAt(s, I) ==
    [k \in 1..Cardinality(I) |->
        s[CHOOSE i \in I : Cardinality({h \in I : h <= i}) = k]]

\* the fetched events that equal no entry of the list and no earlier fetched event
Unseen(prior, fetched) ==
    {i \in DOMAIN fetched :
        /\ \A j \in DOMAIN prior : ~PodEventEqual(prior[j], fetched[i])
        /\ \A j \in 1..(i - 1) : ~PodEventEqual(fetched[j], fetched[i])}

\* C21: a FetchUpdateStatus pass returns the PodEvents of the Run passed in
\* followed by the fetched events that equal no entry already in the list,
\* in the order the cluster returned them
C21_EventsGrowByDedupAppend ==
    [][ret'.op = "FetchUpdateStatus"
          => run'.PodEvents
               = run.PodEvents \o SubSeqAt(ret'.events, Unseen(run.PodEvents, ret'.events))]_vars

\* C22: an Execute whose Create the cluster rejects with an "already
\* exists" error returns the Run passed in with no field changed, and
\* leaves the Jobs the cluster holds as they were
C22_DuplicateLeavesRunAndCluster ==
    [][(ret'.op = "Execute" /\ ret'.msg # Nil /\ Has(ret'.msg, "already exists"))
          => (run' = run /\ jobs' = jobs)]_vars

\* a duplicate Execute of a Run that has a pod and was stopped by an earlier pass
C22_Witness ==
    /\ ret.op = "Execute"
    /\ ret.msg # Nil
    /\ Has(ret.msg, "already exists")
    /\ ~ret.err
    /\ run.Status = StatusStopped
    /\ run.PodName # Nil
    /\ jobs = {RunID}

\* C23: a FetchUpdateStatus pass returns the fields fed by a failed
\* observation as they were passed in: the whole Run when getting the Job
\* failed, the watermarks when the metrics fetch failed, PodEvents when the
\* events fetch failed, and PodName, ContainerName, InstanceDNSName, Cpu
\* and Memory when the pod listing failed
C23_FailedStepLeavesItsFields ==
    [][ret'.op = "FetchUpdateStatus" =>
          /\ "job" \in ret'.failed => run' = run
          /\ "metrics" \in ret'.failed
                => /\ run'.MaxCpuUsed = run.MaxCpuUsed
                   /\ run'.MaxMemoryUsed = run.MaxMemoryUsed
          /\ "events" \in ret'.failed => run'.PodEvents = run.PodEvents
          /\ "pods" \in ret'.failed
                => /\ run'.PodName = run.PodName
                   /\ run'.ContainerName = run.ContainerName
                   /\ run'.InstanceDNSName = run.InstanceDNSName
                   /\ run'.Cpu = run.Cpu
                   /\ run'.Memory = run.Memory]_vars

\* a pass in which the pod listing, the metrics fetch and the events fetch
\* failed, over a Run that earlier passes gave a pod, watermarks and an event
C23_Witness ==
    /\ ret.op = "FetchUpdateStatus"
    /\ ret.failed = {"pods", "metrics", "events"}
    /\ run.PodName = Some("p2")
    /\ run.Cpu = Some(2000)
    /\ run.MaxCpuUsed = Some(1)
    /\ Len(run.PodEvents) = 1

\* the Run names the pod p and carries the name and the limits of its last container
RunOfPod(r, p) ==
    /\ r.PodName = Some(p.Name)
    /\ Len(p.Containers) > 0
    /\ r.ContainerName = Some(p.Containers[Len(p.Containers)].Name)
    /\ r.Cpu = Some(p.Containers[Len(p.Containers)].CpuLimit)
    /\ r.Memory = Some(p.Containers[Len(p.Containers)].MemLimit)

\* C24: a FetchUpdateStatus pass that lists one or more pods returns the
\* Run with the PodName, ContainerName, Cpu and Memory of a listed pod
\* whose CreationTimestamp is the latest of the list, in whatever order the
\* pods are listed
C24_MostRecentPodChosen ==
    (/\ ret.op = "FetchUpdateStatus"
     /\ ~ret.err
     /\ ret.podList # Nil
     /\ Len(Val(ret.podList)) > 0)
        => \E i \in DOMAIN Val(ret.podList) :
              /\ \A j \in DOMAIN Val(ret.podList) :
                    Val(ret.podList)[j].CreationTimestamp
                        <= Val(ret.podList)[i].CreationTimestamp
              /\ RunOfPod(run, Val(ret.podList)[i])

\* C25: a Get or FetchUpdateStatus pass that returns the Run as running
\* leaves its ExitCode as it was, and a pass over a stopped Run, while the
\* status of the Job does not change, returns the ExitCode and the
\* FinishedAt of the Run passed in
C25_ExitFieldsWrittenOnce ==
    [][((GetPass \/ JobPass) /\ ~ret'.err)
          => /\ run'.Status = StatusRunning => run'.ExitCode = run.ExitCode
             /\ run.Status = StatusStopped
                   => /\ run'.ExitCode = run.ExitCode
                      /\ run'.FinishedAt = run.FinishedAt]_vars

\* C30: a FetchUpdateStatus pass that gets a finished Job (Active = 0 with
\* Succeeded >= 1 or Failed >= 1) returns the Run stopped
C30_FinishedJobIsStopped ==
    (/\ ret.op = "FetchUpdateStatus"
     /\ ~ret.err
     /\ eng.Active = 0
     /\ (eng.Succeeded >= 1 \/ eng.Failed >= 1))
        => run.Status = StatusStopped

\* the first non-zero value of the override of the Run, the default of the
\* definition and the global minimum
Seed(override, default, minimum) ==
    IF override # Nil /\ Val(override) # 0 THEN Val(override)
    ELSE IF default # Nil /\ Val(default) # 0 THEN Val(default)
    ELSE minimum

SeedMem == Seed(plan.in.run.Memory, plan.in.executable.Memory, MinMem)

SeedCpu ==
    IF /\ SeedMem >= 36864 /\ SeedMem < 131072
       /\ (plan.in.executable.Gpu = Nil \/ Val(plan.in.executable.Gpu) = 0)
       /\ SeedMem \div 8 > Seed(plan.in.run.Cpu, plan.in.executable.Cpu, MinCPU)
    THEN SeedMem \div 8
    ELSE Seed(plan.in.run.Cpu, plan.in.executable.Cpu, MinCPU)

\* C26: when ARA does not apply the planner returns cpuRequest = cpuLimit
\* and memRequest = memLimit, the seed of each axis clamped into its
\* bounds; the seed is the first non-zero of run override, definition
\* default and global minimum, and the seed cpu is raised to seed memory
\* div 8 exactly when seed memory is in [36864, 131072) without a gpu
C26_SeedsWithoutARA ==
    (plan.out.done /\ ~AraApplies(plan.in.executable, plan.in.araEnabled))
        => /\ Val(plan.out.res).cpuRequest = Clamp(SeedCpu, MinCPU, MaxCPU)
           /\ Val(plan.out.res).cpuLimit = Val(plan.out.res).cpuRequest
           /\ Val(plan.out.res).memRequest = Clamp(SeedMem, MinMem, MaxMem)
           /\ Val(plan.out.res).memLimit = Val(plan.out.res).memRequest

\* a zero memory override falls through to a definition default at the
\* lower end of the range, and the cpu override is raised
C26_Witness ==
    /\ plan.out.done
    /\ ~AraApplies(plan.in.executable, plan.in.araEnabled)
    /\ plan.in.run.Memory = Some(0)
    /\ plan.in.run.Cpu = Some(100)
    /\ plan.in.executable.Memory = Some(36864)
    /\ plan.in.executable.Gpu = Some(0)
    /\ Val(plan.out.res).cpuRequest = 4608
    /\ Val(plan.out.res).memLimit = 36864

\* C27: LogsText writes the log field of every line of the object, in
\* order, and what it writes is the concatenation of the texts of the Logs
\* calls that paged through the object to its end
C27_StreamEqualsPages ==
    logs.sink # Nil
        => /\ Val(logs.sink) = LogFields(AllLines(logs.body))
           /\ logs.done => Val(logs.sink) = logs.text

\* the listing that the last Logs call got
Listing == Val(calls[1].out)

\* C28: the object a Logs call gets has a key that contains the
\* RunID and a LastModified not older than that of any listed object whose
\* key contains the RunID, in whatever order the objects are listed
C28_LatestObjectOfRunRead ==
    \A c \in DOMAIN calls :
        (ret.op = "Logs" /\ calls[c].call = "GetObject")
            => \E i \in DOMAIN Listing :
                  /\ Listing[i].Key = calls[c].arg
                  /\ Contains(Listing[i].Key, run.RunID)
                  /\ \A j \in DOMAIN Listing :
                        Contains(Listing[j].Key, run.RunID)
                            => Listing[j].LastModified <= Listing[i].LastModified

\* the newest object of the run is listed before an earlier one
C28_Witness ==
    /\ ret.op = "Logs"
    /\ ~ret.err
    /\ Len(calls) = 2
    /\ calls[2].call = "GetObject"
    /\ Len(Listing) = 2
    /\ Listing[2] = EarlierObject
    /\ calls[2].arg = Listing[1].Key
    /\ Len(logs.last.text) > 0

\* C29: the cursor a Logs call returns to the pager is the number of lines
\* of the object consumed so far, and so never exceeds the number of lines
\* of the object
C29_CursorWithinObject ==
    (logs.lastSeen # Nil /\ ParseInt(Val(logs.lastSeen)) # Nil)
        => Val(ParseInt(Val(logs.lastSeen))) <= Len(AllLines(logs.body))

====
